---- MODULE Spec2Model ----
(***************************************************************************)
(* The bubbletea Model of internal/cli/model.go as a state machine: the    *)
(* screen controller, its asynchronous fetch commands and the completion   *)
(* messages they deliver back to Update.                                   *)
(*                                                                         *)
(* m is the Model value that Update receives and returns.  A tea.Cmd that  *)
(* Update returns is run by the runtime on its own goroutine (inflight);   *)
(* the tea.Msg it returns is queued (msgs) and handed to Update later.     *)
(* Key presses and window resizes arrive at any time.                      *)
(*                                                                         *)
(* call is one call into the GitHub client: one run of the repository      *)
(* command's closure, taken apart into the API queries of                  *)
(* Client.SearchHacktoberfestReposWithPage (SearchSpec), or one call of a   *)
(* scoring function on given arguments (RelevanceSpec, DifficultySpec).    *)
(***************************************************************************)
EXTENDS Integers, Sequences, FiniteSets, TLC

VARIABLES m, inflight, msgs, quit, call

vars == <<m, inflight, msgs, quit, call>>

(***************************************************************************)
(* Bounds of the model.                                                    *)
(***************************************************************************)
\* config.MaxRepos: the page size of a repository search
MaxRepos == 2
\* config.MaxIssuesPerRepo: the most issues one fetch returns
MaxIssuesPerRepo == 1
\* distinct repositories / issues the upstream API can return
NumRepoIds == 2
NumIssueIds == 1
\* the largest global total the upstream count query reports
MaxTotal == 3

\* the API's limit of items per page (100 at GitHub, part_002:117), scaled
PerPageLimit == 2
\* the largest config.MaxRepos a search is called with
MaxMaxResults == 3
\* the largest page a search is called with
MaxPage == 2

\* the oldest UpdatedAt a repository is scored with, in days before now
MaxAge == 32

\* the nil pointer (selectedRepo, selectedIssue, a list without selection)
Nil == 0
\* the nil error
NoError == "nil"
\* the error GetRepositoryIssues wraps and returns
IssueError == "failed to fetch issues"

RepoIds == 1..NumRepoIds
IssueIds == 1..NumIssueIds
Totals == {0, MaxTotal}

\* sequences over S without repetition, of length at most n
RECURSIVE InjSeqs(_, _)
InjSeqs(S, n) ==
    IF n = 0 THEN {<<>>}
    ELSE {<<>>} \cup UNION {{<<x>> \o s : s \in InjSeqs(S \ {x}, n - 1)} : x \in S}

(***************************************************************************)
(* Screens and keys.                                                       *)
(***************************************************************************)
welcomeScreen == "welcome"
repoListScreen == "repoList"
issueListScreen == "issueList"
issueDetailScreen == "issueDetail"

\* the bindings of keyMap, and any key it does not bind
keys == {"up", "down", "left", "right", "enter", "back", "quit", "refresh", "other"}

(***************************************************************************)
(* Commands (tea.Cmd) and messages (tea.Msg).                              *)
(***************************************************************************)
NoCmd == [kind |-> "nil"]
QuitCmd == [kind |-> "tea.Quit"]

KeyMsg(k) == [type |-> "KeyMsg", key |-> k]
WindowSizeMsg == [type |-> "WindowSizeMsg"]

\* what (m, cmd) a handler returns
Ret(model, cmd) == [m |-> model, cmd |-> cmd]

IsFetch(cmd) == cmd.kind \in {"loadRepos", "loadIssues"}

(***************************************************************************)
(* The GitHub client, as the Model sees it.                                *)
(***************************************************************************)
\* SearchHacktoberfestReposWithPage: at most maxResults repositories, no
\* identity twice, the global total, and always a nil error
SearchResults(maxResults) ==
    [repos : InjSeqs(RepoIds, maxResults), total : Totals, err : {NoError}]

(***************************************************************************)
(* Client.SearchHacktoberfestReposWithPage, one API query at a time.  c is *)
(* the state of one call: its arguments, its locals, the log of the        *)
(* queries it has issued, and what it returns.                             *)
(***************************************************************************)
min(a, b) == IF a < b THEN a ELSE b

\* strings.ToLower, on the strings that occur here
ToLower(s) ==
    CASE s = "Go" -> "go"
      [] s = "Rust" -> "rust"
      [] s = "Octo" -> "octo"
      [] OTHER -> s

\* the minStars every caller passes
minStars == 20

\* config.PreferredLanguages
PreferredLanguages == {<<>>, <<"Go">>, <<"Go", "Rust">>, <<"Rust", "Go">>}

\* the items a search query can return (github.Repository: Owner.Login,
\* Name, StargazersCount, Archived, Language, and whether UpdatedAt is after
\* now minus one month)
Upstream ==
    {[owner |-> "octo", name |-> "app", stars |-> 30, archived |-> FALSE,
      language |-> "Go", recent |-> FALSE],
     [owner |-> "Octo", name |-> "app", stars |-> 30, archived |-> FALSE,
      language |-> "Go", recent |-> FALSE],
     [owner |-> "acme", name |-> "lib", stars |-> 30, archived |-> FALSE,
      language |-> "Rust", recent |-> FALSE],
     [owner |-> "acme", name |-> "big", stars |-> 2000, archived |-> FALSE,
      language |-> "go", recent |-> TRUE],
     [owner |-> "acme", name |-> "old", stars |-> 500, archived |-> TRUE,
      language |-> "Go", recent |-> FALSE],
     [owner |-> "acme", name |-> "tiny", stars |-> 10, archived |-> FALSE,
      language |-> "Rust", recent |-> FALSE]}

\* what the global count query can answer: an error, or a total
CountResponses ==
    {[err |-> TRUE, total |-> 0]} \cup [err : {FALSE}, total : Totals]

\* what a per-language query can answer: an error, or at most perPage items
QueryResponses(perPage) ==
    {[err |-> TRUE, repos |-> <<>>]} \cup [err : {FALSE}, repos : InjSeqs(Upstream, perPage)]

\* the orders a range over a Go map of n entries can take
MapOrders(n) == {f \in [1..n -> 1..n] : \A i, j \in 1..n : f[i] = f[j] => i = j}

\* the key of repoMap
repoKey(repo) == <<repo.owner, "/", repo.name>>

\* mutant: the star score is not capped
calculateRelevance_noCap(repo, preferredLanguages) ==
    (IF repo.stars > 0 THEN repo.stars \div 10 ELSE 0)
    + (IF repo.recent THEN 20 ELSE 0)
    + (IF \E i \in 1..Len(preferredLanguages) :
             ToLower(preferredLanguages[i]) = ToLower(repo.language)
       THEN 50 ELSE 0)

calculateRelevance(repo, preferredLanguages) ==
    (IF repo.stars > 0 THEN min(100, repo.stars \div 10) ELSE 0)
    + (IF repo.recent THEN 20 ELSE 0)
    + (IF \E i \in 1..Len(preferredLanguages) :
             ToLower(preferredLanguages[i]) = ToLower(repo.language)
       THEN 50 ELSE 0)

\* Time, in whole days: day 1 is 1 January of a year that is not a leap
\* year, and a date is a month and a day of that year.
MonthDays == <<31, 28, 31, 30, 31, 30, 31, 31, 30, 31, 30, 31>>

RECURSIVE StartOfMonth(_)
StartOfMonth(month) ==
    IF month = 1 THEN 1 ELSE StartOfMonth(month - 1) + MonthDays[month - 1]

\* time.Date: a day past the end of the month runs on into the next month
Date(month, day) == StartOfMonth(month) + day - 1

MonthOf(t) ==
    CHOOSE month \in 1..12 :
        StartOfMonth(month) <= t /\ t < StartOfMonth(month) + MonthDays[month]

DayOf(t) == t - StartOfMonth(MonthOf(t)) + 1

\* t.AddDate(0, months, 0), for a result within the year
AddDate(t, months) == Date(MonthOf(t) + months, DayOf(t))

\* r.Repository.UpdatedAt.After(time.Now().AddDate(0, -1, 0))
updatedRecently(updatedAt, now) == updatedAt > AddDate(now, -1)

\* the days time.Now() is taken from (February or later)
NowDays ==
    {Date(2, 10), Date(3, 1), Date(3, 29), Date(3, 31), Date(5, 31), Date(7, 31),
     Date(8, 15), Date(12, 31)}

\* the star counts, languages a repository is scored with
StarCounts == {0, 9, 10, 995, 1000, 2000}

Languages == {"Go", "go", "Rust", "Zig"}

\* the repository calculateRelevance is called on
ScoredRepo(c) ==
    [stars |-> c.stars, language |-> c.language,
     recent |-> updatedRecently(c.updatedAt, c.now)]

\* the call as it starts
NewCall(preferred, maxResults, cmd) ==
    [pc |-> "count", cmd |-> cmd, maxResults |-> maxResults, page |-> cmd.page,
     preferred |-> preferred, languages |-> preferred, totalAvailable |-> 0, globalErr |-> FALSE,
     next |-> 1, queries |-> <<>>, repoMap |-> <<>>,
     allRepos |-> <<>>, err |-> NoError, msg |-> [type |-> "none"]]

\* mutant: a failed count query ends the search with its error
globalCount_fatal(c, res) ==
    IF res.err
    THEN [c EXCEPT !.languages = IF Len(@) = 0 THEN <<"">> ELSE @,
                   !.globalErr = TRUE,
                   !.err = "failed to search repositories",
                   !.msg = [type |-> "errorMsg", err |-> "failed to search repositories"],
                   !.pc = "done"]
    ELSE [c EXCEPT !.languages = IF Len(@) = 0 THEN <<"">> ELSE @,
                   !.totalAvailable = res.total,
                   !.pc = "query"]

\* the default language list and the global count query
globalCount(c, res) ==
    [c EXCEPT !.languages = IF Len(@) = 0 THEN <<"">> ELSE @,
              !.globalErr = res.err,
              !.totalAvailable = IF res.err THEN 0 ELSE res.total,
              !.pc = "query"]

\* mutant: archived repositories are not skipped
RECURSIVE processRepositories_keepsArchived(_, _, _)
processRepositories_keepsArchived(repoMap, repos, languages) ==
    IF repos = <<>> THEN repoMap
    ELSE LET repo == Head(repos)
             r == [owner |-> repo.owner, name |-> repo.name, stars |-> repo.stars,
                   archived |-> repo.archived, language |-> repo.language,
                   recent |-> repo.recent,
                   RelevanceScore |-> calculateRelevance(repo, languages)]
         IN IF /\ repo.stars >= minStars
               /\ \A i \in 1..Len(repoMap) : repoKey(repoMap[i]) # repoKey(repo)
            THEN processRepositories_keepsArchived(Append(repoMap, r), Tail(repos), languages)
            ELSE processRepositories_keepsArchived(repoMap, Tail(repos), languages)

\* the loop over result.Repositories; repoMap is kept in insertion order
\* (the Go map has none: see MapOrders)
RECURSIVE processRepositories(_, _, _)
processRepositories(repoMap, repos, languages) ==
    IF repos = <<>> THEN repoMap
    ELSE LET repo == Head(repos)
             r == [owner |-> repo.owner, name |-> repo.name, stars |-> repo.stars,
                   archived |-> repo.archived, language |-> repo.language,
                   recent |-> repo.recent,
                   RelevanceScore |-> calculateRelevance(repo, languages)]
         IN IF /\ repo.stars >= minStars
               /\ ~repo.archived
               /\ \A i \in 1..Len(repoMap) : repoKey(repoMap[i]) # repoKey(repo)
            THEN processRepositories(Append(repoMap, r), Tail(repos), languages)
            ELSE processRepositories(repoMap, Tail(repos), languages)

\* the entry of the query log for the query about to be issued
Query(c) ==
    [language |-> ToLower(c.languages[c.next]), page |-> c.page,
     perPage |-> min(PerPageLimit, c.maxResults), have |-> Len(c.repoMap)]

\* the entry of the query log: the query, whether it failed, and how many
\* items it returned
Logged(c, res) ==
    [language |-> Query(c).language, page |-> Query(c).page,
     perPage |-> Query(c).perPage, have |-> Query(c).have, failed |-> res.err,
     returned |-> Len(res.repos)]

\* the loop goes on to the next language, or ends
nextLanguage(c) ==
    IF c.next = Len(c.languages) THEN [c EXCEPT !.pc = "collect"] ELSE [c EXCEPT !.next = @ + 1]

\* mutant: a failed query ends the search with its error
languageQuery_failsFast(c, res) ==
    LET logged == [c EXCEPT !.queries = Append(@, Logged(c, res))]
    IN IF res.err
       THEN [logged EXCEPT !.err = "failed to search repositories",
                           !.msg = [type |-> "errorMsg", err |-> "failed to search repositories"],
                           !.pc = "done"]
       ELSE LET d == [logged EXCEPT !.repoMap = processRepositories(@, res.repos, c.languages)]
            IN IF Len(d.repoMap) >= c.maxResults THEN [d EXCEPT !.pc = "collect"]
               ELSE nextLanguage(d)

\* mutant: the loop does not stop when the target is reached
languageQuery_noBreak(c, res) ==
    LET logged == [c EXCEPT !.queries = Append(@, Logged(c, res))]
    IN IF res.err THEN nextLanguage(logged)
       ELSE nextLanguage([logged EXCEPT !.repoMap = processRepositories(@, res.repos, c.languages)])

\* one iteration of the loop over languages: the query and its answer res
languageQuery(c, res) ==
    LET logged == [c EXCEPT !.queries = Append(@, Logged(c, res))]
    IN IF res.err THEN nextLanguage(logged)
       ELSE LET d == [logged EXCEPT !.repoMap = processRepositories(@, res.repos, c.languages)]
            IN IF Len(d.repoMap) >= c.maxResults THEN [d EXCEPT !.pc = "collect"]
               ELSE nextLanguage(d)

\* the sort by relevance score: for i, for j > i, swap when s[i] < s[j]
RECURSIVE sortInner(_, _, _)
sortInner(s, i, j) ==
    IF j > Len(s) THEN s
    ELSE sortInner(IF s[i].RelevanceScore < s[j].RelevanceScore
                   THEN [s EXCEPT ![i] = s[j], ![j] = s[i]] ELSE s, i, j + 1)

RECURSIVE sortOuter(_, _)
sortOuter(s, i) == IF i > Len(s) THEN s ELSE sortOuter(sortInner(s, i, i + 1), i + 1)

sortByRelevance(s) == sortOuter(s, 1)

\* mutant: the slice is cut to maxResults before it is sorted
collectRepos_cutsBeforeSort(c, order) ==
    LET allRepos == [i \in 1..Len(c.repoMap) |-> c.repoMap[order[i]]]
        limited == IF Len(allRepos) > c.maxResults
                   THEN SubSeq(allRepos, 1, c.maxResults) ELSE allRepos
    IN [c EXCEPT !.allRepos = sortByRelevance(limited), !.err = NoError]

\* the map becomes a slice (in the order the range takes), is sorted and cut
collectRepos(c, order) ==
    LET allRepos == [i \in 1..Len(c.repoMap) |-> c.repoMap[order[i]]]
        sorted == sortByRelevance(allRepos)
    IN [c EXCEPT !.allRepos = IF Len(sorted) > c.maxResults
                               THEN SubSeq(sorted, 1, c.maxResults) ELSE sorted,
                 !.err = NoError]

(***************************************************************************)
(* Issue.calculateDifficulty.  A label name is the sequence of its         *)
(* characters, so that strings.Contains is a search for a subsequence.     *)
(***************************************************************************)
max(a, b) == IF a > b THEN a ELSE b

\* the most labels an issue is scored with
MaxLabels == 2

\* the substrings the rules look for
GoodFirstIssue ==
    <<"g", "o", "o", "d", " ", "f", "i", "r", "s", "t", " ", "i", "s", "s",
      "u", "e">>

Beginner ==
    <<"b", "e", "g", "i", "n", "n", "e", "r">>

Easy ==
    <<"e", "a", "s", "y">>

HelpWanted ==
    <<"h", "e", "l", "p", " ", "w", "a", "n", "t", "e", "d">>

Hard ==
    <<"h", "a", "r", "d">>

Difficult ==
    <<"d", "i", "f", "f", "i", "c", "u", "l", "t">>

Expert ==
    <<"e", "x", "p", "e", "r", "t">>

Bug ==
    <<"b", "u", "g">>

Feature ==
    <<"f", "e", "a", "t", "u", "r", "e">>

\* the label names of the issues that are scored
LabelGoodFirstIssue ==
    <<"g", "o", "o", "d", " ", "f", "i", "r", "s", "t", " ", "i", "s", "s",
      "u", "e">>

LabelEasy ==
    <<"E", "a", "s", "y">>

LabelHelpWanted ==
    <<"H", "e", "l", "p", " ", "W", "a", "n", "t", "e", "d">>

LabelHardware ==
    <<"h", "a", "r", "d", "w", "a", "r", "e">>

LabelBug ==
    <<"b", "u", "g">>

LabelFeature ==
    <<"f", "e", "a", "t", "u", "r", "e", " ", "r", "e", "q", "u", "e", "s",
      "t">>

LabelDocs ==
    <<"d", "o", "c", "s">>

LabelNames ==
    {LabelGoodFirstIssue, LabelEasy, LabelHelpWanted, LabelHardware, LabelBug,
     LabelFeature, LabelDocs}

\* Issue.Comments: nil (no element) or the count
CommentCounts == {<<>>, <<0>>, <<1>>, <<2>>, <<3>>, <<5>>, <<10>>, <<11>>}

\* strings.ToLower, character by character
ToLowerChars(name) ==
    [i \in 1..Len(name) |->
        CASE name[i] = "E" -> "e"
          [] name[i] = "H" -> "h"
          [] name[i] = "W" -> "w"
          [] OTHER -> name[i]]

\* strings.Contains
Contains(name, substr) ==
    \E i \in 1..(Len(name) - Len(substr) + 1) :
        SubSeq(name, i, i + Len(substr) - 1) = substr

\* the switch on one label
applyLabel(score, label) ==
    LET labelName == ToLowerChars(label)
    IN IF \/ Contains(labelName, GoodFirstIssue)
          \/ Contains(labelName, Beginner)
          \/ Contains(labelName, Easy)
       THEN 20
       ELSE IF Contains(labelName, HelpWanted) THEN min(score, 40)
       ELSE IF \/ Contains(labelName, Hard)
               \/ Contains(labelName, Difficult)
               \/ Contains(labelName, Expert)
       THEN 80
       ELSE IF Contains(labelName, Bug) THEN score + 10
       ELSE IF Contains(labelName, Feature) THEN score + 5
       ELSE score

\* the loop over the labels, in their order
RECURSIVE applyLabels(_, _)
applyLabels(score, labels) ==
    IF labels = <<>> THEN score
    ELSE applyLabels(applyLabel(score, Head(labels)), Tail(labels))

\* the adjustment for the number of comments
adjustForComments(score, comments) ==
    IF comments = <<>> THEN score
    ELSE IF comments[1] > 10 THEN score + 15
    ELSE IF comments[1] < 3 THEN score - 10
    ELSE score

Reverse(s) == [i \in 1..Len(s) |-> s[Len(s) + 1 - i]]

\* mutant: the result is not clamped
calculateDifficulty_noClamp(labels, comments) ==
    adjustForComments(applyLabels(50, labels), comments)

\* mutant: the comment adjustment is made before the label rules
calculateDifficulty_adjustFirst(labels, comments) ==
    max(10, min(100, applyLabels(adjustForComments(50, comments), labels)))

\* mutant: the labels are taken last to first
calculateDifficulty_reversed(labels, comments) ==
    max(10, min(100, adjustForComments(applyLabels(50, Reverse(labels)), comments)))

calculateDifficulty(labels, comments) ==
    max(10, min(100, adjustForComments(applyLabels(50, labels), comments)))

\* the labels of the issues the API returns
IssueLabels(issue) ==
    IF issue % 2 = 1 THEN <<LabelBug, LabelHelpWanted>> ELSE <<LabelBug>>

\* labelCounts of GetRepositoryIssues: for each lower-cased label name of the
\* issues, how many of their labels have it
countLabels(issues) ==
    LET occurrences == {<<i, k>> \in (1..Len(issues)) \X (1..MaxLabels) :
                            k <= Len(IssueLabels(issues[i]))}
        nameOf(o) == ToLowerChars(IssueLabels(issues[o[1]])[o[2]])
    IN [name \in {nameOf(o) : o \in occurrences} |->
           Cardinality({o \in occurrences : nameOf(o) = name})]

\* GetRepositoryIssues: the issues (pull requests dropped) of the first page
\* of min(maxResults, 100) items with their label counts, or the wrapped API
\* error
IssueResults(maxResults) ==
    {[issues |-> issues, labelCounts |-> countLabels(issues), err |-> NoError] :
        issues \in InjSeqs(IssueIds, maxResults)}
        \cup {[issues |-> <<>>, labelCounts |-> <<>>, err |-> IssueError]}

(***************************************************************************)
(* The bubbles list component (repoList, issueList): its items and the     *)
(* index of the highlighted item.  SelectedItem is nil when the index is   *)
(* not the index of an item.                                               *)
(***************************************************************************)
NewList == [items |-> <<>>, index |-> 0]

SetItems(l, items) == [l EXCEPT !.items = items]

Select(l, i) == [l EXCEPT !.index = i]

SelectedItem(l) ==
    IF l.index >= 0 /\ l.index < Len(l.items) THEN l.items[l.index + 1] ELSE Nil

\* the indices list.Update or a resize may leave the list at: any item, or
\* none (-1: a filter that matches nothing, a page past the items)
ListIndices(l) == IF l.items = <<>> THEN {0} ELSE (0..(Len(l.items) - 1)) \cup {-1}

\* list.Update(msg): up and down move the highlight by one, the other keys
\* that reach the list (page keys, filter input, home/end) move it anywhere
ListUpdate(l, msg, c) ==
    IF msg.type # "KeyMsg" THEN l
    ELSE CASE msg.key = "up" ->
                  IF l.index > 0 /\ l.index < Len(l.items) THEN Select(l, l.index - 1) ELSE l
           [] msg.key = "down" ->
                  IF l.index >= 0 /\ l.index < Len(l.items) - 1 THEN Select(l, l.index + 1) ELSE l
           [] OTHER -> Select(l, c)

\* does ListUpdate read its choice c for this message
ListChooses(msg) == msg.type = "KeyMsg" /\ msg.key \notin {"up", "down"}

(***************************************************************************)
(* The asynchronous commands.                                              *)
(***************************************************************************)
\* the closure loadRepositoriesPageWithDirection returns
loadRepositoriesPageWithDirection(page, resetToFirst) ==
    [kind |-> "loadRepos", page |-> page, resetToFirst |-> resetToFirst]

loadRepositories == loadRepositoriesPageWithDirection(1, TRUE)

loadRepositoriesPage(page) == loadRepositoriesPageWithDirection(page, TRUE)

\* the closure loadIssues returns
loadIssues(repo) == [kind |-> "loadIssues", repo |-> repo]

\* the message the repository closure returns when the search, called with
\* config.MaxRepos = maxRepos, returned res
loadRepositoriesClosure(maxRepos, cmd, res) ==
    IF res.err # NoError
    THEN [type |-> "errorMsg", err |-> res.err]
    ELSE [type |-> "reposLoadedMsg",
          repos |-> res.repos,
          totalRepoCnt |-> res.total,
          currentPage |-> cmd.page,
          hasMore |-> (Len(res.repos) = maxRepos /\ cmd.page * maxRepos < res.total),
          resetToFirst |-> cmd.resetToFirst]

runLoadRepositories(cmd, res) == loadRepositoriesClosure(MaxRepos, cmd, res)

\* mutant: the error branch does not return, the success message is built anyway
runLoadIssues_swallowsError(cmd, res) ==
    [type |-> "issuesLoadedMsg", issues |-> res.issues, labelStats |-> res.labelCounts]

\* the message the issue closure returns when GetRepositoryIssues returned res
runLoadIssues(cmd, res) ==
    IF res.err # NoError
    THEN [type |-> "errorMsg", err |-> res.err]
    ELSE [type |-> "issuesLoadedMsg", issues |-> res.issues, labelStats |-> res.labelCounts]

\* what the API can answer to a command, and the message the command returns
Results(cmd) ==
    IF cmd.kind = "loadRepos" THEN SearchResults(MaxRepos) ELSE IssueResults(MaxIssuesPerRepo)

Run(cmd, res) ==
    IF cmd.kind = "loadRepos" THEN runLoadRepositories(cmd, res) ELSE runLoadIssues(cmd, res)

(***************************************************************************)
(* Update and its handlers.                                                *)
(***************************************************************************)
NewModel ==
    [currentScreen |-> welcomeScreen,
     repos |-> <<>>, issues |-> <<>>, labelStats |-> <<>>,
     selectedRepo |-> Nil, selectedIssue |-> Nil,
     currentPage |-> 1, totalRepos |-> 0, hasMorePages |-> FALSE,
     loading |-> FALSE, error |-> NoError,
     repoList |-> NewList, issueList |-> NewList]

\* mutant: back from IssueList falls through to the Welcome screen
handleBack_skipsRepoList(model) ==
    CASE model.currentScreen = repoListScreen ->
             Ret([model EXCEPT !.currentScreen = welcomeScreen], NoCmd)
      [] model.currentScreen = issueListScreen ->
             Ret([model EXCEPT !.currentScreen = welcomeScreen], NoCmd)
      [] model.currentScreen = issueDetailScreen ->
             Ret([model EXCEPT !.currentScreen = issueListScreen], NoCmd)
      [] OTHER -> Ret(model, NoCmd)

handleBack(model) ==
    CASE model.currentScreen = repoListScreen ->
             Ret([model EXCEPT !.currentScreen = welcomeScreen], NoCmd)
      [] model.currentScreen = issueListScreen ->
             Ret([model EXCEPT !.currentScreen = repoListScreen], NoCmd)
      [] model.currentScreen = issueDetailScreen ->
             Ret([model EXCEPT !.currentScreen = issueListScreen], NoCmd)
      [] OTHER -> Ret(model, NoCmd)

\* mutant: confirm on Welcome forgets to set loading
handleEnter_noLoading(model) ==
    CASE model.currentScreen = welcomeScreen ->
             Ret(model, loadRepositories)
      [] model.currentScreen = repoListScreen ->
             IF Len(model.repoList.items) = 0 THEN Ret(model, NoCmd)
             ELSE IF SelectedItem(model.repoList) # Nil
                  THEN Ret([model EXCEPT !.selectedRepo = SelectedItem(model.repoList),
                                         !.loading = TRUE],
                           loadIssues(SelectedItem(model.repoList)))
                  ELSE Ret(model, NoCmd)
      [] model.currentScreen = issueListScreen ->
             IF Len(model.issueList.items) = 0 THEN Ret(model, NoCmd)
             ELSE IF SelectedItem(model.issueList) # Nil
                  THEN Ret([model EXCEPT !.selectedIssue = SelectedItem(model.issueList),
                                         !.currentScreen = issueDetailScreen],
                           NoCmd)
                  ELSE Ret(model, NoCmd)
      [] OTHER -> Ret(model, NoCmd)

\* mutant: confirm on RepoList takes the first repository of the page
handleEnter_firstItem(model) ==
    CASE model.currentScreen = welcomeScreen ->
             Ret([model EXCEPT !.loading = TRUE], loadRepositories)
      [] model.currentScreen = repoListScreen ->
             IF Len(model.repoList.items) = 0 THEN Ret(model, NoCmd)
             ELSE IF SelectedItem(model.repoList) # Nil
                  THEN Ret([model EXCEPT !.selectedRepo = model.repoList.items[1],
                                         !.loading = TRUE],
                           loadIssues(model.repoList.items[1]))
                  ELSE Ret(model, NoCmd)
      [] model.currentScreen = issueListScreen ->
             IF Len(model.issueList.items) = 0 THEN Ret(model, NoCmd)
             ELSE IF SelectedItem(model.issueList) # Nil
                  THEN Ret([model EXCEPT !.selectedIssue = SelectedItem(model.issueList),
                                         !.currentScreen = issueDetailScreen],
                           NoCmd)
                  ELSE Ret(model, NoCmd)
      [] OTHER -> Ret(model, NoCmd)

handleEnter(model) ==
    CASE model.currentScreen = welcomeScreen ->
             Ret([model EXCEPT !.loading = TRUE], loadRepositories)
      [] model.currentScreen = repoListScreen ->
             IF Len(model.repoList.items) = 0 THEN Ret(model, NoCmd)
             ELSE IF SelectedItem(model.repoList) # Nil
                  THEN Ret([model EXCEPT !.selectedRepo = SelectedItem(model.repoList),
                                         !.loading = TRUE],
                           loadIssues(SelectedItem(model.repoList)))
                  ELSE Ret(model, NoCmd)
      [] model.currentScreen = issueListScreen ->
             IF Len(model.issueList.items) = 0 THEN Ret(model, NoCmd)
             ELSE IF SelectedItem(model.issueList) # Nil
                  THEN Ret([model EXCEPT !.selectedIssue = SelectedItem(model.issueList),
                                         !.currentScreen = issueDetailScreen],
                           NoCmd)
                  ELSE Ret(model, NoCmd)
      [] OTHER -> Ret(model, NoCmd)

\* mutant: refresh on RepoList searches from the first page
handleRefresh_firstPage(model) ==
    CASE model.currentScreen = repoListScreen ->
             Ret([model EXCEPT !.loading = TRUE], loadRepositories)
      [] model.currentScreen = issueListScreen /\ model.selectedRepo # Nil ->
             Ret([model EXCEPT !.loading = TRUE], loadIssues(model.selectedRepo))
      [] OTHER -> Ret(model, NoCmd)

handleRefresh(model) ==
    CASE model.currentScreen = repoListScreen ->
             Ret([model EXCEPT !.loading = TRUE], loadRepositoriesPage(model.currentPage))
      [] model.currentScreen = issueListScreen /\ model.selectedRepo # Nil ->
             Ret([model EXCEPT !.loading = TRUE], loadIssues(model.selectedRepo))
      [] OTHER -> Ret(model, NoCmd)

\* the tail of Update: the list of the current screen sees the message too
updateCurrentList(model, msg, c) ==
    CASE model.currentScreen = repoListScreen ->
             Ret([model EXCEPT !.repoList = ListUpdate(@, msg, c)], NoCmd)
      [] model.currentScreen = issueListScreen ->
             Ret([model EXCEPT !.issueList = ListUpdate(@, msg, c)], NoCmd)
      [] OTHER -> Ret(model, NoCmd)

\* mutant: keys are processed while loading
keysIgnored_never(model) == FALSE

\* case tea.KeyMsg: keys are not processed while loading
keysIgnored(model) == model.loading

\* mutant: page-backward does not test currentPage > 1
updateKeyMsg_leftUnguarded(model, msg, c) ==
    IF keysIgnored(model) THEN Ret(model, NoCmd)
    ELSE CASE msg.key = "quit" -> Ret(model, QuitCmd)
           [] msg.key = "back" -> handleBack(model)
           [] msg.key = "left" ->
                  IF model.currentScreen = repoListScreen
                  THEN Ret([model EXCEPT !.loading = TRUE, !.currentPage = @ - 1],
                           loadRepositoriesPageWithDirection(model.currentPage - 1, FALSE))
                  ELSE updateCurrentList(model, msg, c)
           [] msg.key = "right" ->
                  IF model.currentScreen = repoListScreen /\ model.hasMorePages
                  THEN Ret([model EXCEPT !.loading = TRUE, !.currentPage = @ + 1],
                           loadRepositoriesPageWithDirection(model.currentPage + 1, TRUE))
                  ELSE updateCurrentList(model, msg, c)
           [] msg.key = "enter" -> handleEnter(model)
           [] msg.key = "refresh" -> handleRefresh(model)
           [] OTHER -> updateCurrentList(model, msg, c)

updateKeyMsg(model, msg, c) ==
    IF keysIgnored(model) THEN Ret(model, NoCmd)
    ELSE CASE msg.key = "quit" -> Ret(model, QuitCmd)
           [] msg.key = "back" -> handleBack(model)
           [] msg.key = "left" ->
                  IF model.currentScreen = repoListScreen /\ model.currentPage > 1
                  THEN Ret([model EXCEPT !.loading = TRUE, !.currentPage = @ - 1],
                           loadRepositoriesPageWithDirection(model.currentPage - 1, FALSE))
                  ELSE updateCurrentList(model, msg, c)
           [] msg.key = "right" ->
                  IF model.currentScreen = repoListScreen /\ model.hasMorePages
                  THEN Ret([model EXCEPT !.loading = TRUE, !.currentPage = @ + 1],
                           loadRepositoriesPageWithDirection(model.currentPage + 1, TRUE))
                  ELSE updateCurrentList(model, msg, c)
           [] msg.key = "enter" -> handleEnter(model)
           [] msg.key = "refresh" -> handleRefresh(model)
           [] OTHER -> updateCurrentList(model, msg, c)

\* case tea.WindowSizeMsg: both lists are resized, which repaginates them
\* (the sizes themselves are presentation only and not kept here)
updateWindowSizeMsg(model, msg, cr, ci) ==
    updateCurrentList([model EXCEPT !.repoList = Select(@, cr),
                                    !.issueList = Select(@, ci)], msg, cr)

\* mutant: the loaded page does not switch the screen
updateReposLoadedMsg_keepsScreen(model, msg) ==
    LET items == msg.repos
        l1 == SetItems(model.repoList, items)
        l2 == IF Len(items) > 0
              THEN IF msg.resetToFirst THEN Select(l1, 0) ELSE Select(l1, Len(items) - 1)
              ELSE l1
    IN updateCurrentList([model EXCEPT !.loading = FALSE,
                                       !.repos = msg.repos,
                                       !.currentPage = msg.currentPage,
                                       !.totalRepos = msg.totalRepoCnt,
                                       !.hasMorePages = msg.hasMore,
                                       !.repoList = l2], msg, 0)

\* mutant: the list component is given the loaded page only when it has items
updateReposLoadedMsg_setItemsIfAny(model, msg) ==
    LET items == msg.repos
        l1 == SetItems(model.repoList, items)
        l2 == IF Len(items) > 0
              THEN IF msg.resetToFirst THEN Select(l1, 0) ELSE Select(l1, Len(items) - 1)
              ELSE model.repoList
    IN updateCurrentList([model EXCEPT !.loading = FALSE,
                                       !.repos = msg.repos,
                                       !.currentPage = msg.currentPage,
                                       !.totalRepos = msg.totalRepoCnt,
                                       !.hasMorePages = msg.hasMore,
                                       !.repoList = l2,
                                       !.currentScreen = repoListScreen], msg, 0)

\* mutant: the cursor always goes to the first item
updateReposLoadedMsg_alwaysFirst(model, msg) ==
    LET items == msg.repos
        l1 == SetItems(model.repoList, items)
        l2 == IF Len(items) > 0 THEN Select(l1, 0) ELSE l1
    IN updateCurrentList([model EXCEPT !.loading = FALSE,
                                       !.repos = msg.repos,
                                       !.currentPage = msg.currentPage,
                                       !.totalRepos = msg.totalRepoCnt,
                                       !.hasMorePages = msg.hasMore,
                                       !.repoList = l2,
                                       !.currentScreen = repoListScreen], msg, 0)

\* mutant: the loaded page does not set currentPage
updateReposLoadedMsg_keepsPage(model, msg) ==
    LET items == msg.repos
        l1 == SetItems(model.repoList, items)
        l2 == IF Len(items) > 0
              THEN IF msg.resetToFirst THEN Select(l1, 0) ELSE Select(l1, Len(items) - 1)
              ELSE l1
    IN updateCurrentList([model EXCEPT !.loading = FALSE,
                                       !.repos = msg.repos,
                                       !.totalRepos = msg.totalRepoCnt,
                                       !.hasMorePages = msg.hasMore,
                                       !.repoList = l2,
                                       !.currentScreen = repoListScreen], msg, 0)

updateReposLoadedMsg(model, msg) ==
    LET items == msg.repos
        l1 == SetItems(model.repoList, items)
        l2 == IF Len(items) > 0
              THEN IF msg.resetToFirst THEN Select(l1, 0) ELSE Select(l1, Len(items) - 1)
              ELSE l1
    IN updateCurrentList([model EXCEPT !.loading = FALSE,
                                       !.repos = msg.repos,
                                       !.currentPage = msg.currentPage,
                                       !.totalRepos = msg.totalRepoCnt,
                                       !.hasMorePages = msg.hasMore,
                                       !.repoList = l2,
                                       !.currentScreen = repoListScreen], msg, 0)

\* mutant: the loaded issues and label counts are added to the ones held
updateIssuesLoadedMsg_appends(model, msg) ==
    updateCurrentList([model EXCEPT !.loading = FALSE,
                                    !.issues = @ \o msg.issues,
                                    !.labelStats = countLabels(model.issues \o msg.issues),
                                    !.issueList = SetItems(@, model.issues \o msg.issues),
                                    !.currentScreen = issueListScreen], msg, 0)

\* mutant: the issues are applied only on the screens an issue fetch is
\* dispatched from
updateIssuesLoadedMsg_ifExpected(model, msg) ==
    IF model.currentScreen \in {repoListScreen, issueListScreen}
    THEN updateCurrentList([model EXCEPT !.loading = FALSE,
                                         !.issues = msg.issues,
                                         !.labelStats = msg.labelStats,
                                         !.issueList = SetItems(@, msg.issues),
                                         !.currentScreen = issueListScreen], msg, 0)
    ELSE Ret([model EXCEPT !.loading = FALSE], NoCmd)

updateIssuesLoadedMsg(model, msg) ==
    updateCurrentList([model EXCEPT !.loading = FALSE,
                                    !.issues = msg.issues,
                                    !.labelStats = msg.labelStats,
                                    !.issueList = SetItems(@, msg.issues),
                                    !.currentScreen = issueListScreen], msg, 0)

\* mutant: the failure message records the error but leaves loading set
updateErrorMsg_keepsLoading(model, msg) ==
    updateCurrentList([model EXCEPT !.error = msg.err], msg, 0)

updateErrorMsg(model, msg) ==
    updateCurrentList([model EXCEPT !.loading = FALSE, !.error = msg.err], msg, 0)

\* View: which of a screen's renderings is shown (the "Loading..." shown
\* before the first window size is known is left out)
View(model) ==
    CASE model.currentScreen = welcomeScreen ->
             IF model.loading THEN "Searching Repositories" ELSE "Welcome"
      [] model.currentScreen = repoListScreen ->
             IF model.loading THEN "Loading Repositories"
             ELSE IF model.error # NoError THEN "Error: Failed to load repositories"
             ELSE IF Len(model.repos) = 0 THEN "No Repositories Found"
             ELSE "Repositories"
      [] model.currentScreen = issueListScreen ->
             IF model.loading THEN "Loading Issues"
             ELSE IF model.error # NoError THEN "Error: Failed to load issues"
             ELSE IF Len(model.issues) = 0 THEN "No Issues Found"
             ELSE "Issues"
      [] OTHER ->
             IF model.selectedIssue = Nil \/ model.selectedRepo = Nil
             THEN "No issue selected" ELSE "Issue"

(***************************************************************************)
(* The steps of the program.                                               *)
(***************************************************************************)
\* no run of the search is taken apart
NoCall == [pc |-> "none"]

Init ==
    /\ m = NewModel
    /\ inflight = <<>>
    /\ msgs = <<>>
    /\ quit = FALSE
    /\ call = NoCall

\* the runtime takes what Update returned: the model, and the command to run
Apply(r) ==
    /\ m' = r.m
    /\ inflight' = IF IsFetch(r.cmd) THEN Append(inflight, r.cmd) ELSE inflight
    /\ quit' = (r.cmd = QuitCmd)

CurrentList(model) ==
    IF model.currentScreen = issueListScreen THEN model.issueList ELSE model.repoList

\* a key press reaches Update
KeyPress ==
    /\ ~quit
    /\ \E k \in keys :
         \E c \in (IF ListChooses(KeyMsg(k)) THEN ListIndices(CurrentList(m)) ELSE {0}) :
            /\ Apply(updateKeyMsg(m, KeyMsg(k), c))
            /\ UNCHANGED <<msgs, call>>

\* the terminal reports its size
Resize ==
    /\ ~quit
    /\ \E cr \in ListIndices(m.repoList), ci \in ListIndices(m.issueList) :
         /\ Apply(updateWindowSizeMsg(m, WindowSizeMsg, cr, ci))
         /\ UNCHANGED <<msgs, call>>

\* a running command returns its message
FetchReturn ==
    /\ ~quit
    /\ \E i \in 1..Len(inflight) :
         \E res \in Results(inflight[i]) :
            /\ msgs' = Append(msgs, Run(inflight[i], res))
            /\ inflight' = SubSeq(inflight, 1, i - 1) \o SubSeq(inflight, i + 1, Len(inflight))
            /\ UNCHANGED <<m, quit, call>>

updateCompletion(model, msg) ==
    CASE msg.type = "reposLoadedMsg" -> updateReposLoadedMsg(model, msg)
      [] msg.type = "issuesLoadedMsg" -> updateIssuesLoadedMsg(model, msg)
      [] msg.type = "errorMsg" -> updateErrorMsg(model, msg)

\* a completion message reaches Update
Deliver ==
    /\ ~quit
    /\ msgs # <<>>
    /\ Apply(updateCompletion(m, Head(msgs)))
    /\ msgs' = Tail(msgs)
    /\ UNCHANGED call

Next == KeyPress \/ Resize \/ FetchReturn \/ Deliver

Spec == Init /\ [][Next]_vars

\* the same program where every dispatched fetch eventually returns and the
\* runtime eventually hands every returned message to Update
FairSpec == Spec /\ WF_vars(FetchReturn) /\ WF_vars(Deliver)

(***************************************************************************)
(* The same program, observed: next to the model, the navigation state     *)
(* right after the step that dispatched the outstanding fetch is kept, and *)
(* the page and more-pages flag of the repository page last loaded.        *)
(***************************************************************************)
\* nothing is outstanding
NoDispatch == [currentScreen |-> welcomeScreen, selectedRepo |-> Nil, currentPage |-> 0]

\* the navigation state of a model
Navigation(model) ==
    [currentScreen |-> model.currentScreen,
     selectedRepo |-> model.selectedRepo,
     currentPage |-> model.currentPage]

TrackedInit ==
    /\ m = NewModel
    /\ inflight = <<>>
    /\ msgs = <<>>
    /\ quit = FALSE
    /\ call = [pc |-> "tracked", dispatch |-> NoDispatch, heldPage |-> 0, heldMore |-> FALSE]

\* a key press reaches Update; when Update returns a fetch, the navigation
\* state it returns with it is noted
TrackedKeyPress ==
    /\ ~quit
    /\ \E k \in keys :
         \E c \in (IF ListChooses(KeyMsg(k)) THEN ListIndices(CurrentList(m)) ELSE {0}) :
            LET r == updateKeyMsg(m, KeyMsg(k), c)
            IN /\ Apply(r)
               /\ call' = IF IsFetch(r.cmd)
                          THEN [call EXCEPT !.dispatch = Navigation(r.m)]
                          ELSE call
               /\ UNCHANGED msgs

\* a completion message reaches Update; a loaded repository page is noted
TrackedDeliver ==
    /\ ~quit
    /\ msgs # <<>>
    /\ Apply(updateCompletion(m, Head(msgs)))
    /\ msgs' = Tail(msgs)
    /\ call' = IF Head(msgs).type = "reposLoadedMsg"
               THEN [call EXCEPT !.dispatch = NoDispatch,
                                 !.heldPage = Head(msgs).currentPage,
                                 !.heldMore = Head(msgs).hasMore]
               ELSE [call EXCEPT !.dispatch = NoDispatch]

TrackedNext == TrackedKeyPress \/ Resize \/ FetchReturn \/ TrackedDeliver

TrackedSpec == TrackedInit /\ [][TrackedNext]_vars

(***************************************************************************)
(* One run of the repository closure: the count query, the per-language    *)
(* queries, and the return of the completion message.                      *)
(***************************************************************************)
SearchInit ==
    /\ m = NewModel
    /\ inflight = <<>>
    /\ msgs = <<>>
    /\ quit = FALSE
    /\ \E preferred \in PreferredLanguages, maxRepos \in 1..MaxMaxResults,
          page \in 1..MaxPage, resetToFirst \in BOOLEAN :
          call = NewCall(preferred, maxRepos,
                         loadRepositoriesPageWithDirection(page, resetToFirst))

GlobalCount ==
    /\ call.pc = "count"
    /\ \E res \in CountResponses : call' = globalCount(call, res)
    /\ UNCHANGED <<m, inflight, msgs, quit>>

LanguageQuery ==
    /\ call.pc = "query"
    /\ \E res \in QueryResponses(Query(call).perPage) : call' = languageQuery(call, res)
    /\ UNCHANGED <<m, inflight, msgs, quit>>

\* the search returns and the closure builds its message
Return ==
    /\ call.pc = "collect"
    /\ \E order \in MapOrders(Len(call.repoMap)) :
          LET c == collectRepos(call, order)
          IN call' = [c EXCEPT !.msg = loadRepositoriesClosure(c.maxResults, c.cmd,
                                           [repos |-> c.allRepos,
                                            total |-> c.totalAvailable,
                                            err |-> c.err]),
                               !.pc = "done"]
    /\ UNCHANGED <<m, inflight, msgs, quit>>

SearchNext == GlobalCount \/ LanguageQuery \/ Return

SearchSpec == SearchInit /\ [][SearchNext]_vars

(***************************************************************************)
(* One call of Repository.calculateRelevance.                              *)
(***************************************************************************)
\* the preferred languages a repository is scored against: those of the
\* search, and a list that names the repository's language twice
ScoredPreferences == PreferredLanguages \cup {<<"Go", "go">>}

RelevanceInit ==
    /\ m = NewModel
    /\ inflight = <<>>
    /\ msgs = <<>>
    /\ quit = FALSE
    /\ \E stars \in StarCounts, language \in Languages, now \in NowDays,
          age \in 0..MaxAge, preferred \in ScoredPreferences :
          call = [pc |-> "calculateRelevance", stars |-> stars, language |-> language,
                  now |-> now, updatedAt |-> now - age, preferred |-> preferred,
                  RelevanceScore |-> 0]

CalculateRelevance ==
    /\ call.pc = "calculateRelevance"
    /\ call' = [call EXCEPT !.RelevanceScore = calculateRelevance(ScoredRepo(call),
                                                                  call.preferred),
                            !.pc = "scored"]
    /\ UNCHANGED <<m, inflight, msgs, quit>>

RelevanceNext == CalculateRelevance

RelevanceSpec == RelevanceInit /\ [][RelevanceNext]_vars

(***************************************************************************)
(* One call of Issue.calculateDifficulty.                                  *)
(***************************************************************************)
DifficultyInit ==
    /\ m = NewModel
    /\ inflight = <<>>
    /\ msgs = <<>>
    /\ quit = FALSE
    /\ \E labels \in InjSeqs(LabelNames, MaxLabels), comments \in CommentCounts :
          call = [pc |-> "calculateDifficulty", labels |-> labels,
                  comments |-> comments, DifficultyScore |-> 0]

CalculateDifficulty ==
    /\ call.pc = "calculateDifficulty"
    /\ call' = [call EXCEPT !.DifficultyScore = calculateDifficulty(call.labels,
                                                                    call.comments),
                            !.pc = "scored"]
    /\ UNCHANGED <<m, inflight, msgs, quit>>

DifficultyNext == CalculateDifficulty

DifficultySpec == DifficultyInit /\ [][DifficultyNext]_vars

(***************************************************************************)
(* One call of Client.GetRepositoryIssues: the API call, the loop over the *)
(* items it returned, and the return of the statistics.                    *)
(***************************************************************************)
\* the most items the API is asked for
MaxItems == 3

\* the items Issues.ListByRepo can return: issues and pull requests (an
\* item with PullRequestLinks), with their numbers, labels and comment counts
Listed ==
    {[number |-> 1, pullRequest |-> FALSE, labels |-> <<LabelEasy, LabelHelpWanted>>,
      comments |-> <<0>>],
     [number |-> 2, pullRequest |-> FALSE, labels |-> <<Easy>>, comments |-> <<11>>],
     [number |-> 3, pullRequest |-> FALSE, labels |-> <<>>, comments |-> <<>>],
     [number |-> 4, pullRequest |-> FALSE, labels |-> <<LabelBug, LabelHelpWanted>>,
      comments |-> <<3>>],
     [number |-> 5, pullRequest |-> TRUE, labels |-> <<LabelEasy>>, comments |-> <<1>>],
     [number |-> 6, pullRequest |-> TRUE, labels |-> <<LabelDocs, LabelBug>>,
      comments |-> <<0>>]}

\* what Issues.ListByRepo can answer when asked for one page of perPage items
ListResponses(perPage) ==
    {[issues |-> issues, err |-> NoError] : issues \in InjSeqs(Listed, perPage)}
        \cup {[issues |-> <<>>, err |-> IssueError]}

\* labelCounts[labelName]++ on a map
Increment(labelCounts, labelName) ==
    IF labelName \in DOMAIN labelCounts
    THEN [labelCounts EXCEPT ![labelName] = @ + 1]
    ELSE labelCounts @@ (labelName :> 1)

\* the inner loop: every label of the issue is counted under its lower-cased name
RECURSIVE countIssueLabels(_, _)
countIssueLabels(labelCounts, labels) ==
    IF labels = <<>> THEN labelCounts
    ELSE countIssueLabels(Increment(labelCounts, ToLowerChars(Head(labels))), Tail(labels))

\* mutant: a pull request is left out of the result but its labels are counted
processItem_countsPullRequests(c) ==
    LET issue == c.issues[c.next]
    IN IF issue.pullRequest
       THEN [c EXCEPT !.prCount = @ + 1, !.next = @ + 1,
                      !.labelCounts = countIssueLabels(@, issue.labels)]
       ELSE [c EXCEPT !.result = Append(@, [number |-> issue.number,
                                             labels |-> issue.labels,
                                             DifficultyScore |->
                                                 calculateDifficulty(issue.labels,
                                                                     issue.comments)]),
                      !.labelCounts = countIssueLabels(@, issue.labels),
                      !.next = @ + 1]

\* one iteration of the loop over the items
processItem(c) ==
    LET issue == c.issues[c.next]
    IN IF issue.pullRequest
       THEN [c EXCEPT !.prCount = @ + 1, !.next = @ + 1]
       ELSE [c EXCEPT !.result = Append(@, [number |-> issue.number,
                                             labels |-> issue.labels,
                                             DifficultyScore |->
                                                 calculateDifficulty(issue.labels,
                                                                     issue.comments)]),
                      !.labelCounts = countIssueLabels(@, issue.labels),
                      !.next = @ + 1]

\* the call as it starts
NewIssuesCall(maxResults) ==
    [pc |-> "ListByRepo", maxResults |-> maxResults, perPage |-> min(maxResults, 100),
     issues |-> <<>>, next |-> 1, result |-> <<>>, labelCounts |-> <<>>, prCount |-> 0,
     stats |-> [Issues |-> <<>>, LabelCounts |-> <<>>, TotalIssues |-> 0],
     err |-> NoError]

IssuesInit ==
    /\ m = NewModel
    /\ inflight = <<>>
    /\ msgs = <<>>
    /\ quit = FALSE
    /\ \E maxResults \in 1..MaxItems : call = NewIssuesCall(maxResults)

\* the API call returns: an error ends the call, otherwise the loop starts
ListByRepo ==
    /\ call.pc = "ListByRepo"
    /\ \E res \in ListResponses(call.perPage) :
          call' = IF res.err # NoError
                  THEN [call EXCEPT !.err = res.err, !.pc = "returned"]
                  ELSE [call EXCEPT !.issues = res.issues, !.pc = "loop"]
    /\ UNCHANGED <<m, inflight, msgs, quit>>

ProcessItem ==
    /\ call.pc = "loop"
    /\ call.next <= Len(call.issues)
    /\ call' = processItem(call)
    /\ UNCHANGED <<m, inflight, msgs, quit>>

\* after the loop the statistics are built and returned
ReturnStats ==
    /\ call.pc = "loop"
    /\ call.next > Len(call.issues)
    /\ call' = [call EXCEPT !.stats = [Issues |-> call.result,
                                       LabelCounts |-> call.labelCounts,
                                       TotalIssues |-> Len(call.result)],
                            !.pc = "returned"]
    /\ UNCHANGED <<m, inflight, msgs, quit>>

IssuesNext == ListByRepo \/ ProcessItem \/ ReturnStats

IssuesSpec == IssuesInit /\ [][IssuesNext]_vars

(***************************************************************************)
(* The legacy synchronous App: the loop of Run renders the screen, reads   *)
(* one key and handles it; a search is a blocking call inside the handler. *)
(***************************************************************************)
\* config.MaxRepos and config.MaxIssuesPerRepo of the run
AppMaxRepos == 6
AppMaxIssues == 6

ScreenWelcome == "ScreenWelcome"
ScreenRepoSearch == "ScreenRepoSearch"
ScreenRepoList == "ScreenRepoList"
ScreenIssueList == "ScreenIssueList"
ScreenIssueDetail == "ScreenIssueDetail"

KeyCodes ==
    {"KeyUp", "KeyDown", "KeyLeft", "KeyRight", "KeyEnter", "KeyEsc", "KeyQ", "KeyR",
     "KeyOther"}

\* Go's integer division, which truncates toward zero
Quot(a, b) == IF a >= 0 THEN a \div b ELSE -((-a) \div b)

\* the first n identifiers: a list of n repositories or issues
Listing(n) == [i \in 1..n |-> i]

\* what the old client's SearchHacktoberfestRepos and GetRepositoryIssues can
\* return: at most min(maxResults, 100) items, or nil and an error
ClientResults(maxResults) ==
    {[items |-> Listing(n), err |-> NoError] : n \in 0..min(maxResults, 100)}
        \cup {[items |-> <<>>, err |-> IssueError]}

NewApp ==
    [pc |-> "render",
     screen |-> ScreenWelcome,
     repos |-> <<>>, issues |-> <<>>,
     selectedRepo |-> 0, selectedIssue |-> 0,
     currentPage |-> 0,
     itemsPerPage |-> max(5, Quot(AppMaxRepos, 10)),
     display |-> "blank",
     rendered |-> {}]

getMaxPage(a) ==
    CASE a.screen = ScreenRepoList -> Quot(Len(a.repos) - 1, a.itemsPerPage)
      [] a.screen = ScreenIssueList -> Quot(Len(a.issues) - 1, a.itemsPerPage)
      [] OTHER -> 0

canPaginate(a) == getMaxPage(a) > 0

adjustPageForSelection(a) ==
    IF a.screen \notin {ScreenRepoList, ScreenIssueList} THEN a
    ELSE LET selectedIndex == IF a.screen = ScreenRepoList
                              THEN a.selectedRepo ELSE a.selectedIssue
             requiredPage == Quot(selectedIndex, a.itemsPerPage)
         IN IF requiredPage # a.currentPage
            THEN [a EXCEPT !.currentPage = requiredPage]
            ELSE a

handleUp(a) ==
    CASE a.screen = ScreenRepoList /\ a.selectedRepo > 0 ->
             adjustPageForSelection([a EXCEPT !.selectedRepo = @ - 1])
      [] a.screen = ScreenIssueList /\ a.selectedIssue > 0 ->
             adjustPageForSelection([a EXCEPT !.selectedIssue = @ - 1])
      [] OTHER -> a

handleDown(a) ==
    CASE a.screen = ScreenRepoList /\ a.selectedRepo < Len(a.repos) - 1 ->
             adjustPageForSelection([a EXCEPT !.selectedRepo = @ + 1])
      [] a.screen = ScreenIssueList /\ a.selectedIssue < Len(a.issues) - 1 ->
             adjustPageForSelection([a EXCEPT !.selectedIssue = @ + 1])
      [] OTHER -> a

handleLeft(a) ==
    IF canPaginate(a) /\ a.currentPage > 0
    THEN [a EXCEPT !.currentPage = @ - 1]
    ELSE a

handleRight(a) ==
    IF canPaginate(a) /\ a.currentPage < getMaxPage(a)
    THEN [a EXCEPT !.currentPage = @ + 1]
    ELSE a

goBack(a) ==
    [a EXCEPT !.screen = CASE a.screen = ScreenRepoList -> ScreenWelcome
                           [] a.screen = ScreenIssueList -> ScreenRepoList
                           [] a.screen = ScreenIssueDetail -> ScreenIssueList
                           [] OTHER -> ScreenWelcome,
              !.currentPage = 0]

\* searchRepositories, once the client has returned res
searchRepositories(a, res) ==
    [a EXCEPT !.repos = IF res.err # NoError THEN <<>> ELSE res.items,
              !.selectedRepo = 0,
              !.currentPage = 0,
              !.screen = ScreenRepoList]

\* searchIssues, once the client has returned res
searchIssues(a, res) ==
    [a EXCEPT !.issues = IF res.err # NoError THEN <<>> ELSE res.items,
              !.selectedIssue = 0,
              !.currentPage = 0,
              !.screen = ScreenIssueList]

\* handleEnter of the App, up to the call of the client it makes, if any
appHandleEnter(a) ==
    CASE a.screen = ScreenWelcome ->
             [a EXCEPT !.screen = ScreenRepoSearch, !.pc = "searchRepositories"]
      [] a.screen = ScreenRepoList ->
             IF a.selectedRepo >= Len(a.repos) THEN a
             ELSE [a EXCEPT !.pc = "searchIssues"]
      [] a.screen = ScreenIssueList ->
             [a EXCEPT !.screen = ScreenIssueDetail]
      [] OTHER -> a

\* refresh, up to the call of the client it makes, if any
refresh(a) ==
    CASE a.screen = ScreenRepoList -> [a EXCEPT !.pc = "searchRepositories"]
      [] a.screen = ScreenIssueList ->
             IF a.selectedRepo >= Len(a.repos) THEN a
             ELSE [a EXCEPT !.pc = "searchIssues"]
      [] OTHER -> a

\* handleInput: the loop ends when it returns false
handleInput(a, key) ==
    CASE key \in {"KeyQ", "KeyEsc"} ->
             IF a.screen = ScreenWelcome THEN [a EXCEPT !.pc = "exited"] ELSE goBack(a)
      [] key = "KeyEnter" -> appHandleEnter(a)
      [] key = "KeyUp" -> handleUp(a)
      [] key = "KeyDown" -> handleDown(a)
      [] key = "KeyLeft" -> handleLeft(a)
      [] key = "KeyRight" -> handleRight(a)
      [] key = "KeyR" -> refresh(a)
      [] OTHER -> a

AppInit ==
    /\ m = NewModel
    /\ inflight = <<>>
    /\ msgs = <<>>
    /\ quit = FALSE
    /\ call = NewApp

\* a.render(): the current screen is drawn
Render ==
    /\ call.pc = "render"
    /\ call' = [call EXCEPT !.display = call.screen,
                            !.rendered = @ \cup {call.screen},
                            !.pc = "readKey"]
    /\ UNCHANGED <<m, inflight, msgs, quit>>

\* a key is read and handled; unless the handler is inside a call of the
\* client or has ended the loop, the loop goes on to render
ReadKey ==
    /\ call.pc = "readKey"
    /\ \E key \in KeyCodes :
          LET a == handleInput(call, key)
          IN call' = IF a.pc = "readKey" THEN [a EXCEPT !.pc = "render"] ELSE a
    /\ UNCHANGED <<m, inflight, msgs, quit>>

\* the client returns inside searchRepositories, and the handler with it
SearchRepositories ==
    /\ call.pc = "searchRepositories"
    /\ \E res \in ClientResults(AppMaxRepos) :
          call' = [searchRepositories(call, res) EXCEPT !.pc = "render"]
    /\ UNCHANGED <<m, inflight, msgs, quit>>

\* the client returns inside searchIssues, and the handler with it
SearchIssues ==
    /\ call.pc = "searchIssues"
    /\ \E res \in ClientResults(AppMaxIssues) :
          call' = [searchIssues(call, res) EXCEPT !.pc = "render"]
    /\ UNCHANGED <<m, inflight, msgs, quit>>

AppNext == Render \/ ReadKey \/ SearchRepositories \/ SearchIssues

AppSpec == AppInit /\ [][AppNext]_vars

(***************************************************************************)
(* Properties.  A property of a handler is stated on every reachable state *)
(* in which its message can arrive (a key: any state before quit; a        *)
(* completion message: the head of msgs): the handler's result is compared *)
(* with the model it is called on.                                         *)
(***************************************************************************)
\* the choices the list component has when msg reaches it
Choices(model, msg) ==
    IF ListChooses(msg) THEN ListIndices(CurrentList(model)) ELSE {0}

\* the navigation keys: every binding but quit
NavKeys == {"up", "down", "left", "right", "enter", "back", "refresh"}

\* C1: selectedIssue is non-nil only while the screen is IssueDetail.
C1_SelectedIssueOnlyOnDetail ==
    m.selectedIssue # Nil => m.currentScreen = issueDetailScreen

\* C2: the quit key terminates the program in every state, also while a
\* fetch is in flight.
C2_QuitAlwaysHonoured ==
    ~quit => updateKeyMsg(m, KeyMsg("quit"), 0).cmd = QuitCmd

\* C3: while loading, every navigation key returns the model unchanged and
\* no command.
C3_KeysIgnoredWhileLoading ==
    (~quit /\ m.loading) =>
        \A k \in NavKeys : \A c \in Choices(m, KeyMsg(k)) :
            updateKeyMsg(m, KeyMsg(k), c) = Ret(m, NoCmd)

\* a page search is in flight on RepoList, where refresh, back, confirm and
\* the page keys would act, and Update drops each of them
C3_Witness ==
    /\ ~quit /\ m.loading /\ m.currentScreen = repoListScreen
    /\ m.repoList.items # <<>> /\ m.currentPage > 1 /\ Len(inflight) = 1
    /\ \A k \in NavKeys : updateKeyMsg(m, KeyMsg(k), 0) = Ret(m, NoCmd)

\* C4: at most one fetch is outstanding (running, or returned with its
\* completion message not yet consumed), and Update returns a fetch command
\* only when none is.
C4_AtMostOneFetch ==
    /\ Len(inflight) + Len(msgs) <= 1
    /\ ~quit => \A k \in keys : \A c \in Choices(m, KeyMsg(k)) :
           IsFetch(updateKeyMsg(m, KeyMsg(k), c).cmd) => (inflight = <<>> /\ msgs = <<>>)
    /\ msgs # <<>> => ~IsFetch(updateCompletion(m, Head(msgs)).cmd)

\* an issue fetch is the one fetch in flight, dispatched after the repository
\* search that filled the list has completed
C4_Witness ==
    /\ Len(inflight) = 1 /\ inflight[1].kind = "loadIssues" /\ msgs = <<>>
    /\ m.loading /\ m.repos # <<>>

\* C5: a fetch that returns produces exactly one completion message: the
\* error message carrying the error when the API call failed, otherwise the
\* loaded message carrying the payload.
C5_OneCompletionPerFetch ==
    /\ \A i \in 1..Len(inflight) : \A res \in Results(inflight[i]) :
          LET msg == Run(inflight[i], res)
          IN IF res.err # NoError
             THEN msg = [type |-> "errorMsg", err |-> res.err]
             ELSE IF inflight[i].kind = "loadRepos"
                  THEN /\ msg.type = "reposLoadedMsg"
                       /\ msg.repos = res.repos /\ msg.totalRepoCnt = res.total
                  ELSE /\ msg.type = "issuesLoadedMsg"
                       /\ msg.issues = res.issues
    /\ \A i \in 1..Len(msgs) :
          msgs[i].type \in {"reposLoadedMsg", "issuesLoadedMsg", "errorMsg"}
    /\ m.loading => Len(inflight) + Len(msgs) = 1

\* an issue fetch has returned with an error: the failure message is queued
\* and the fetch is no longer in flight
C5_Witness ==
    /\ msgs = <<[type |-> "errorMsg", err |-> IssueError]>>
    /\ inflight = <<>> /\ m.loading

\* C6: confirm on Welcome sets loading, stays on Welcome and dispatches the
\* search for page 1; consuming its success message gives RepoList, loading
\* false, page 1.
C6_WelcomeConfirm ==
    /\ (~quit /\ m.currentScreen = welcomeScreen /\ ~m.loading) =>
          updateKeyMsg(m, KeyMsg("enter"), 0) =
              Ret([m EXCEPT !.loading = TRUE], loadRepositoriesPageWithDirection(1, TRUE))
    /\ (msgs # <<>> /\ Head(msgs).type = "reposLoadedMsg" /\ m.currentScreen = welcomeScreen) =>
          LET r == updateCompletion(m, Head(msgs))
          IN /\ r.m.currentScreen = repoListScreen
             /\ r.m.loading = FALSE
             /\ r.m.currentPage = 1
             /\ r.cmd = NoCmd

\* confirm was pressed on Welcome after the user had paged forward and gone
\* back: the success message of the page-1 search is about to be consumed
C6_Witness ==
    /\ m.currentScreen = welcomeScreen /\ m.loading /\ m.currentPage > 1
    /\ inflight = <<>> /\ Len(msgs) = 1 /\ msgs[1].type = "reposLoadedMsg"
    /\ updateCompletion(m, msgs[1]).m.currentPage = 1

\* C8: confirm on RepoList with no repositories, and on IssueList with no
\* issues, returns the model unchanged and no command.
C8_ConfirmOnEmptyList ==
    (/\ ~quit /\ ~m.loading
     /\ \/ m.currentScreen = repoListScreen /\ m.repos = <<>>
        \/ m.currentScreen = issueListScreen /\ m.issues = <<>>) =>
        updateKeyMsg(m, KeyMsg("enter"), 0) = Ret(m, NoCmd)

\* IssueList shows an empty issue list of a selected repository, loaded after
\* a non-empty one (an issue is still selected from then)
C8_Witness ==
    /\ ~quit /\ ~m.loading /\ m.currentScreen = issueListScreen
    /\ m.issues = <<>> /\ m.selectedRepo # Nil /\ m.selectedIssue # Nil
    /\ updateKeyMsg(m, KeyMsg("enter"), 0) = Ret(m, NoCmd)

\* C9: while the error overlay is shown on RepoList or IssueList, confirm,
\* page-forward and page-backward change nothing and dispatch nothing.
C9_ErrorOverlayOnlyBackAndRetry ==
    (/\ ~quit /\ ~m.loading /\ m.error # NoError
     /\ m.currentScreen \in {repoListScreen, issueListScreen}) =>
        \A k \in {"enter", "left", "right"} : \A c \in Choices(m, KeyMsg(k)) :
            LET r == updateKeyMsg(m, KeyMsg(k), c)
            IN /\ r.cmd = NoCmd
               /\ r.m.currentScreen = m.currentScreen
               /\ r.m.loading = m.loading
               /\ r.m.currentPage = m.currentPage
               /\ r.m.selectedRepo = m.selectedRepo
               /\ r.m.selectedIssue = m.selectedIssue

\* C10: on RepoList, page-backward at page 1 and page-forward without more
\* pages leave currentPage, loading and the repositories as they are and
\* dispatch nothing; otherwise the search for page-1 / page+1 is dispatched.
C10_PageKeys ==
    (~quit /\ ~m.loading /\ m.currentScreen = repoListScreen) =>
        \A c \in Choices(m, KeyMsg("left")) :
            LET l == updateKeyMsg(m, KeyMsg("left"), c)
                r == updateKeyMsg(m, KeyMsg("right"), c)
                Kept(x) == /\ x.cmd = NoCmd
                           /\ x.m.currentPage = m.currentPage
                           /\ x.m.loading = m.loading
                           /\ x.m.repos = m.repos
                           /\ x.m.repoList.items = m.repoList.items
            IN /\ IF m.currentPage = 1 THEN Kept(l)
                  ELSE l.cmd.kind = "loadRepos" /\ l.cmd.page = m.currentPage - 1
               /\ IF ~m.hasMorePages THEN Kept(r)
                  ELSE r.cmd.kind = "loadRepos" /\ r.cmd.page = m.currentPage + 1

\* RepoList shows a full first page with more pages: page-backward is dropped
\* by Update (only the list component sees the key), page-forward dispatches
C10_Witness ==
    /\ ~quit /\ ~m.loading /\ m.currentScreen = repoListScreen
    /\ m.currentPage = 1 /\ m.hasMorePages /\ Len(m.repos) = MaxRepos
    /\ \E c \in Choices(m, KeyMsg("left")) :
          /\ updateKeyMsg(m, KeyMsg("left"), c).cmd = NoCmd
          /\ updateKeyMsg(m, KeyMsg("left"), c).m.repoList.index # m.repoList.index
    /\ updateKeyMsg(m, KeyMsg("right"), 0).cmd = loadRepositoriesPageWithDirection(2, TRUE)

\* C12: currentPage >= 1 in every reachable state, and every repository
\* search that is dispatched, running or answered carries a page >= 1.
C12_PageAtLeastOne ==
    /\ m.currentPage >= 1
    /\ \A i \in 1..Len(inflight) :
          inflight[i].kind = "loadRepos" => inflight[i].page >= 1
    /\ \A i \in 1..Len(msgs) :
          msgs[i].type = "reposLoadedMsg" => msgs[i].currentPage >= 1
    /\ ~quit => \A k \in keys : \A c \in Choices(m, KeyMsg(k)) :
          LET r == updateKeyMsg(m, KeyMsg(k), c)
          IN /\ r.m.currentPage >= 1
             /\ r.cmd.kind = "loadRepos" => r.cmd.page >= 1

\* page-backward was pressed on page 2: page 1 is being fetched, and a
\* further page-backward is not possible from the state it will give
C12_Witness ==
    /\ m.currentPage = 1 /\ m.loading /\ m.currentScreen = repoListScreen
    /\ inflight = <<loadRepositoriesPageWithDirection(1, FALSE)>>
    /\ updateKeyMsg([m EXCEPT !.loading = FALSE], KeyMsg("left"), 0).cmd = NoCmd

\* C13: back, when not loading, moves one step down the screen stack
\* (IssueDetail, IssueList, RepoList, Welcome), changes nothing else of the
\* navigation state, dispatches nothing and does not set loading.
C13_BackOneStep ==
    (~quit /\ ~m.loading) =>
        LET r == updateKeyMsg(m, KeyMsg("back"), 0)
        IN /\ r.cmd = NoCmd
           /\ r.m.loading = FALSE
           /\ r.m.currentScreen =
                 CASE m.currentScreen = issueDetailScreen -> issueListScreen
                   [] m.currentScreen = issueListScreen -> repoListScreen
                   [] m.currentScreen = repoListScreen -> welcomeScreen
                   [] OTHER -> welcomeScreen
           /\ r.m.repos = m.repos /\ r.m.issues = m.issues

\* back is pressed on IssueList, below which both RepoList and Welcome lie
C13_Witness ==
    /\ ~quit /\ ~m.loading /\ m.currentScreen = issueListScreen
    /\ m.repos # <<>> /\ m.issues # <<>>
    /\ updateKeyMsg(m, KeyMsg("back"), 0) =
           Ret([m EXCEPT !.currentScreen = repoListScreen], NoCmd)

\* C14: back from RepoList, at any page, gives a state with currentPage = 1.
C14_BackResetsPage ==
    (~quit /\ ~m.loading /\ m.currentScreen = repoListScreen) =>
        updateKeyMsg(m, KeyMsg("back"), 0).m.currentPage = 1

\* C26: a repository search dispatched by page-backward, and no other, asks
\* for the last item; its message carries that on; and applying a loaded,
\* non-empty page puts the cursor on the first item, or on the last item when
\* the message asks for it.
C26_CursorAfterLoad ==
    /\ ~quit => \A k \in keys : \A c \in Choices(m, KeyMsg(k)) :
          LET r == updateKeyMsg(m, KeyMsg(k), c)
          IN r.cmd.kind = "loadRepos" => r.cmd.resetToFirst = (k # "left")
    /\ \A i \in 1..Len(inflight) : \A res \in Results(inflight[i]) :
          inflight[i].kind = "loadRepos" =>
              Run(inflight[i], res).resetToFirst = inflight[i].resetToFirst
    /\ (msgs # <<>> /\ Head(msgs).type = "reposLoadedMsg" /\ Head(msgs).repos # <<>>) =>
          LET msg == Head(msgs)
              l == updateCompletion(m, msg).m.repoList
          IN /\ l.items = msg.repos
             /\ l.index = IF msg.resetToFirst THEN 0 ELSE Len(msg.repos) - 1
             /\ SelectedItem(l) = IF msg.resetToFirst THEN msg.repos[1]
                                   ELSE msg.repos[Len(msg.repos)]

\* the page fetched by page-backward has arrived with two repositories while
\* the cursor is on the first item: it goes to the second
C26_Witness ==
    /\ Len(msgs) = 1 /\ msgs[1].type = "reposLoadedMsg" /\ ~msgs[1].resetToFirst
    /\ Len(msgs[1].repos) = 2 /\ m.repoList.index = 0
    /\ updateCompletion(m, msgs[1]).m.repoList.index = 1

\* C27: confirm on RepoList with a highlighted repository records it as
\* selectedRepo, sets loading and dispatches the issue fetch for it, the
\* screen staying RepoList; the fetch in flight is the one for selectedRepo;
\* consuming its success message gives IssueList, loading false.
C27_ConfirmOnRepoList ==
    /\ (/\ ~quit /\ ~m.loading /\ m.currentScreen = repoListScreen
        /\ SelectedItem(m.repoList) # Nil) =>
          updateKeyMsg(m, KeyMsg("enter"), 0) =
              Ret([m EXCEPT !.selectedRepo = SelectedItem(m.repoList), !.loading = TRUE],
                  loadIssues(SelectedItem(m.repoList)))
    /\ \A i \in 1..Len(inflight) :
          inflight[i].kind = "loadIssues" =>
              /\ inflight[i].repo = m.selectedRepo /\ m.loading
              /\ m.currentScreen \in {repoListScreen, issueListScreen}
    /\ (msgs # <<>> /\ Head(msgs).type = "issuesLoadedMsg") =>
          LET r == updateCompletion(m, Head(msgs))
          IN r.m.currentScreen = issueListScreen /\ r.m.loading = FALSE /\ r.cmd = NoCmd

\* the second of two repositories is highlighted, another one is still the
\* selected repository: confirm selects the second and fetches its issues
C27_Witness ==
    /\ ~quit /\ ~m.loading /\ m.currentScreen = repoListScreen
    /\ Len(m.repoList.items) = 2 /\ m.repoList.index = 1
    /\ m.selectedRepo = m.repoList.items[1]
    /\ updateKeyMsg(m, KeyMsg("enter"), 0).cmd = loadIssues(m.repoList.items[2])
    /\ updateKeyMsg(m, KeyMsg("enter"), 0).m.selectedRepo = m.repoList.items[2]

\* C28: refresh on RepoList sets loading and dispatches the search for
\* currentPage, and its success message leaves currentPage as it is (on
\* RepoList the search in flight or answered is always for currentPage);
\* refresh on IssueList dispatches the issue fetch for selectedRepo.
C28_Refresh ==
    /\ (~quit /\ ~m.loading /\ m.currentScreen = repoListScreen) =>
          LET r == updateKeyMsg(m, KeyMsg("refresh"), 0)
          IN /\ r = Ret([m EXCEPT !.loading = TRUE],
                        loadRepositoriesPageWithDirection(m.currentPage, TRUE))
             /\ \A res \in Results(r.cmd) :
                   updateCompletion(r.m, Run(r.cmd, res)).m.currentPage = m.currentPage
    /\ m.currentScreen = repoListScreen =>
          /\ \A i \in 1..Len(inflight) :
                inflight[i].kind = "loadRepos" => inflight[i].page = m.currentPage
          /\ \A i \in 1..Len(msgs) :
                msgs[i].type = "reposLoadedMsg" => msgs[i].currentPage = m.currentPage
    /\ (~quit /\ ~m.loading /\ m.currentScreen = issueListScreen) =>
          /\ m.selectedRepo # Nil
          /\ updateKeyMsg(m, KeyMsg("refresh"), 0) =
                Ret([m EXCEPT !.loading = TRUE], loadIssues(m.selectedRepo))

\* page 2 is shown: refresh dispatches the search for page 2
C28_Witness ==
    /\ ~quit /\ ~m.loading /\ m.currentScreen = repoListScreen /\ m.currentPage = 2
    /\ updateKeyMsg(m, KeyMsg("refresh"), 0).cmd = loadRepositoriesPageWithDirection(2, TRUE)

\* C29: the success message of an issue fetch carries the issues and label
\* counts the fetch returned; applying it makes issues, labelStats and the
\* list items equal to its payload; and the label counts held are always
\* those of the issues held.
C29_IssuesReplaced ==
    /\ \A i \in 1..Len(inflight) : \A res \in Results(inflight[i]) :
          (inflight[i].kind = "loadIssues" /\ res.err = NoError) =>
              /\ Run(inflight[i], res).issues = res.issues
              /\ Run(inflight[i], res).labelStats = res.labelCounts
    /\ (msgs # <<>> /\ Head(msgs).type = "issuesLoadedMsg") =>
          LET msg == Head(msgs)
              r == updateCompletion(m, msg).m
          IN /\ r.issues = msg.issues
             /\ r.labelStats = msg.labelStats
             /\ r.issueList.items = msg.issues
    /\ m.labelStats = countLabels(m.issues)

\* issues and label counts of an earlier fetch are held, and a fetch that
\* found no issues has returned: applying it leaves none
C29_Witness ==
    /\ m.issues # <<>> /\ m.labelStats # <<>>
    /\ Len(msgs) = 1 /\ msgs[1].type = "issuesLoadedMsg" /\ msgs[1].issues = <<>>
    /\ updateCompletion(m, msgs[1]).m.issues = <<>>
    /\ updateCompletion(m, msgs[1]).m.labelStats = <<>>

\* the screens
Screens == {welcomeScreen, repoListScreen, issueListScreen, issueDetailScreen}

\* C30: whatever the screen and the selected repository are when it arrives,
\* a repositories-loaded message gives RepoList with the repositories and
\* paging state of the message, and an issues-loaded message gives
\* IssueList with its issues.
C30_CompletionUnconditional ==
    msgs # <<>> =>
        \A s \in Screens : \A repo \in RepoIds \cup {Nil} :
            LET msg == Head(msgs)
                r == updateCompletion([m EXCEPT !.currentScreen = s,
                                                !.selectedRepo = repo], msg).m
            IN /\ msg.type = "reposLoadedMsg" =>
                     /\ r.currentScreen = repoListScreen /\ ~r.loading
                     /\ r.repos = msg.repos /\ r.repoList.items = msg.repos
                     /\ r.currentPage = msg.currentPage
                     /\ r.hasMorePages = msg.hasMore
                     /\ r.totalRepos = msg.totalRepoCnt
               /\ msg.type = "issuesLoadedMsg" =>
                     /\ r.currentScreen = issueListScreen /\ ~r.loading
                     /\ r.issues = msg.issues /\ r.issueList.items = msg.issues

\* an issues-loaded message arrives while IssueList already shows the issues
\* of the repository (a refresh): it is applied as on any other screen
C30_Witness ==
    /\ Len(msgs) = 1 /\ msgs[1].type = "issuesLoadedMsg"
    /\ m.currentScreen = issueListScreen /\ m.issues # msgs[1].issues
    /\ updateCompletion(m, msgs[1]).m.issues = msgs[1].issues

\* C31: when every dispatched fetch eventually returns, every state with
\* loading set is eventually followed by a state with loading clear, in
\* which Update processes the navigation keys again.
C31_LoadingEnds ==
    m.loading ~> (~quit /\ ~m.loading /\ ~keysIgnored(m))

\* a fetch has failed and its failure message has been consumed: loading is
\* clear again and back is processed on the screen the fetch was started from
C31_Witness ==
    /\ ~quit /\ ~m.loading /\ m.error # NoError
    /\ inflight = <<>> /\ msgs = <<>>
    /\ m.currentScreen = repoListScreen
    /\ updateKeyMsg(m, KeyMsg("back"), 0).m.currentScreen = welcomeScreen

\* C32: back (q or esc) on the Welcome screen quits the program, and on every
\* other screen it goes back one screen.
C32_BackQuitsOnWelcome ==
    (~quit /\ ~m.loading) =>
        LET r == updateKeyMsg(m, KeyMsg("back"), 0)
        IN IF m.currentScreen = welcomeScreen
           THEN r.cmd = QuitCmd
           ELSE /\ r.cmd = NoCmd
                /\ r.m.currentScreen =
                      CASE m.currentScreen = issueDetailScreen -> issueListScreen
                        [] m.currentScreen = issueListScreen -> repoListScreen
                        [] OTHER -> welcomeScreen

\* C34: loading is set exactly when one dispatched fetch has not had its
\* completion message consumed: a key sets loading exactly when Update
\* returns a fetch command for it, every completion message clears it, and
\* neither a key nor a resize changes it otherwise.
C34_LoadingIffOneOutstanding ==
    /\ m.loading <=> (Len(inflight) + Len(msgs) = 1)
    /\ ~quit => \A k \in keys : \A c \in Choices(m, KeyMsg(k)) :
           LET r == updateKeyMsg(m, KeyMsg(k), c)
           IN /\ IsFetch(r.cmd) <=> (r.m.loading /\ ~m.loading)
              /\ ~IsFetch(r.cmd) => r.m.loading = m.loading
    /\ \A cr \in ListIndices(m.repoList), ci \in ListIndices(m.issueList) :
           LET r == updateWindowSizeMsg(m, WindowSizeMsg, cr, ci)
           IN r.m.loading = m.loading /\ ~IsFetch(r.cmd)
    /\ msgs # <<>> =>
           LET r == updateCompletion(m, Head(msgs))
           IN ~r.m.loading /\ ~IsFetch(r.cmd)

\* a page search dispatched from RepoList has returned and its message is
\* not consumed yet: the fetch is still the one outstanding, loading is set
C34_Witness ==
    /\ m.loading /\ inflight = <<>> /\ Len(msgs) = 1
    /\ msgs[1].type = "reposLoadedMsg" /\ m.currentScreen = repoListScreen
    /\ ~updateCompletion(m, msgs[1]).m.loading

\* C35: consuming a success message leaves the model without an error, so
\* that the screen it gives shows the loaded data and not the error overlay.
C35_SuccessClearsError ==
    (msgs # <<>> /\ Head(msgs).type # "errorMsg") =>
        LET r == updateCompletion(m, Head(msgs)).m
        IN /\ r.error = NoError
           /\ View(r) \notin {"Error: Failed to load repositories",
                              "Error: Failed to load issues"}

C37_NoStaleCompletion ==
    /\ (m.loading \/ msgs # <<>>) => Navigation(m) = call.dispatch
    /\ (~quit /\ m.loading) =>
           \A k \in keys : \A c \in Choices(m, KeyMsg(k)) :
               Navigation(updateKeyMsg(m, KeyMsg(k), c).m) = Navigation(m)

\* the message of an issue fetch dispatched from the second repository page
\* is about to be consumed, and the navigation state is that of the dispatch
C37_Witness ==
    /\ Len(msgs) = 1 /\ msgs[1].type = "issuesLoadedMsg"
    /\ m.currentScreen = repoListScreen /\ m.currentPage = 2
    /\ m.selectedRepo # Nil /\ Navigation(m) = call.dispatch

(***************************************************************************)
(* Properties of the repository search (SearchSpec).                       *)
(***************************************************************************)
\* the page size of the queries of the call
PageSize == min(PerPageLimit, call.maxResults)

\* the identity of a repository: owner and name, whatever their case
Identity(repo) == <<ToLower(repo.owner), ToLower(repo.name)>>

\* s sorted by score, highest first, entries of equal score in the order of s
RECURSIVE StableByScore(_)
StableByScore(s) ==
    IF s = <<>> THEN <<>>
    ELSE LET t == StableByScore(SubSeq(s, 1, Len(s) - 1))
             r == s[Len(s)]
             k == Cardinality({i \in 1..Len(t) : t[i].RelevanceScore >= r.RelevanceScore})
         IN SubSeq(t, 1, k) \o <<r>> \o SubSeq(t, k + 1, Len(t))

\* C11: the completion message of a successful search has hasMore true iff
\* the search returned exactly pageSize repositories and page * pageSize is
\* below the total, pageSize being the page size of the queries.
C11_HasMorePages ==
    (call.pc = "done" /\ call.msg.type = "reposLoadedMsg") =>
        call.msg.hasMore = (/\ Len(call.msg.repos) = PageSize
                            /\ call.page * PageSize < call.msg.totalRepoCnt)

\* C15: no two repositories of a search result have the same identity
\* (owner, name), compared without regard to case.
C15_UniqueIdentity ==
    call.pc = "done" =>
        \A i, j \in 1..Len(call.allRepos) :
            Identity(call.allRepos[i]) = Identity(call.allRepos[j]) => i = j

\* C16: the search result has min(maxResults, merged repositories) entries,
\* all of them merged ones, in non-increasing order of score, and no
\* repository left out scores higher than one that is kept.
C16_LengthAndOrder ==
    call.pc = "done" =>
        LET res == call.allRepos
            kept == {res[i] : i \in 1..Len(res)}
            merged == {call.repoMap[i] : i \in 1..Len(call.repoMap)}
        IN /\ Len(res) = min(call.maxResults, Len(call.repoMap))
           /\ Cardinality(kept) = Len(res)
           /\ kept \subseteq merged
           /\ \A i, j \in 1..Len(res) :
                 i < j => res[i].RelevanceScore >= res[j].RelevanceScore
           /\ \A r \in merged \ kept : \A k \in kept :
                 r.RelevanceScore <= k.RelevanceScore

\* more repositories were merged than maxResults, the lowest score first:
\* the result is cut, and its first entry outscores its second
C16_Witness ==
    /\ call.pc = "done" /\ call.maxResults >= 2
    /\ Len(call.repoMap) > call.maxResults
    /\ Len(call.allRepos) = call.maxResults
    /\ call.repoMap[1].RelevanceScore < call.repoMap[Len(call.repoMap)].RelevanceScore
    /\ call.allRepos[1].RelevanceScore > call.allRepos[2].RelevanceScore

\* C17: the search result is the merged repositories sorted by score with
\* ties in insertion order, cut to maxResults.
C17_TiesInInsertionOrder ==
    call.pc = "done" =>
        LET stable == StableByScore(call.repoMap)
        IN call.allRepos = SubSeq(stable, 1, min(call.maxResults, Len(stable)))

\* C18: the per-language queries are issued in the order of the language
\* list (one unfiltered query when the list is empty), none is issued once
\* maxResults repositories are merged, and the loop ends only then or when
\* every language has been queried.
C18_QueryOrderAndStop ==
    call.pc \in {"query", "collect", "done"} =>
        /\ Len(call.queries) <= Len(call.languages)
        /\ \A k \in 1..Len(call.queries) :
              /\ call.preferred # <<>> =>
                    call.queries[k].language = ToLower(call.preferred[k])
              /\ call.queries[k].have < call.maxResults
        /\ call.pc # "query" =>
              \/ Len(call.queries) = Len(call.languages)
              \/ Len(call.repoMap) >= call.maxResults
        /\ (call.pc # "query" /\ call.preferred = <<>>) =>
              (Len(call.queries) = 1 /\ call.queries[1].language = "")

\* the first of two languages filled the result: the second was not queried
C18_Witness ==
    /\ call.pc = "done" /\ call.preferred = <<"Go", "Rust">> /\ Len(call.queries) = 1
    /\ call.queries[1].language = "go" /\ Len(call.repoMap) >= call.maxResults

\* C19: when the global count query fails, the per-language queries are
\* still issued, and the search returns their merged result, a total of 0
\* and no error.
C19_CountFailureNotFatal ==
    (call.pc \in {"query", "collect", "done"} /\ call.globalErr) =>
        /\ call.totalAvailable = 0
        /\ call.err = NoError
        /\ call.pc = "done" =>
              /\ Len(call.queries) >= 1
              /\ call.msg.type = "reposLoadedMsg"
              /\ call.msg.totalRepoCnt = 0
              /\ {call.msg.repos[i] : i \in 1..Len(call.msg.repos)}
                    \subseteq {call.repoMap[i] : i \in 1..Len(call.repoMap)}
              /\ call.repoMap # <<>> => call.msg.repos # <<>>

\* the count query failed, both languages were queried and the merged result
\* was returned with a total of 0
C19_Witness ==
    /\ call.pc = "done" /\ call.globalErr /\ Len(call.queries) = 2
    /\ call.allRepos # <<>> /\ call.msg.type = "reposLoadedMsg"
    /\ call.msg.repos = call.allRepos /\ call.msg.totalRepoCnt = 0

\* C20: a per-language query that fails is skipped and the languages after
\* it are still queried; when every query fails the result is empty; and
\* the search returns no error, so that its completion message is never the
\* failure message.
C20_QueryFailureSkipped ==
    /\ call.pc \in {"collect", "done"} =>
          \A k \in 1..Len(call.queries) :
              call.queries[k].failed => (k = Len(call.languages) \/ Len(call.queries) > k)
    /\ call.pc = "done" =>
          /\ call.err = NoError
          /\ call.msg.type = "reposLoadedMsg"
          /\ (\A k \in 1..Len(call.queries) : call.queries[k].failed) =>
                (call.allRepos = <<>> /\ call.msg.repos = <<>>)

\* the query of the first language failed, the second was issued and its
\* repositories were returned
C20_Witness ==
    /\ call.pc = "done" /\ Len(call.queries) = 2
    /\ call.queries[1].failed /\ ~call.queries[2].failed
    /\ call.allRepos # <<>> /\ call.msg.type = "reposLoadedMsg"

\* C21: no repository merged or returned by the search is archived or has
\* fewer stars than minStars, whatever the queries return.
C21_NoArchivedNoLowStars ==
    call.pc \in {"query", "collect", "done"} =>
        /\ \A i \in 1..Len(call.repoMap) :
              ~call.repoMap[i].archived /\ call.repoMap[i].stars >= minStars
        /\ \A i \in 1..Len(call.allRepos) :
              ~call.allRepos[i].archived /\ call.allRepos[i].stars >= minStars
        /\ call.pc = "done" =>
              \A i \in 1..Len(call.msg.repos) :
                  ~call.msg.repos[i].archived /\ call.msg.repos[i].stars >= minStars

\* the only query returned two items, the archived and the low-star one
\* among them (no other two of Upstream are both dropped), and the result is
\* empty
C21_Witness ==
    /\ call.pc = "done" /\ Len(call.queries) = 1
    /\ ~call.queries[1].failed /\ call.queries[1].returned = 2
    /\ call.repoMap = <<>> /\ call.msg.repos = <<>>

(***************************************************************************)
(* Properties of the scoring functions (RelevanceSpec, DifficultySpec).    *)
(***************************************************************************)
\* does the language equal a preferred language, whatever the case
LanguageMatch ==
    ToLower(call.language) \in {ToLower(call.preferred[i]) : i \in 1..Len(call.preferred)}

\* C22, as claimed: the score is min(100, stars div 10), plus 20 if updatedAt
\* is within the last 30 days, plus 50 (once) if the language equals a
\* preferred language whatever the case.
C22_RelevanceThirtyDays ==
    call.pc = "scored" =>
        call.RelevanceScore =
            min(100, call.stars \div 10)
            + (IF call.now - call.updatedAt <= 30 THEN 20 ELSE 0)
            + (IF LanguageMatch THEN 50 ELSE 0)

\* C22, amended: the recency bonus is given iff updatedAt is less than one
\* calendar month before now, which is the length of the month before the
\* current one, 28 to 31 days; stars = 0, a preferred language and
\* updatedAt = now score 70.
C22_RelevanceOneMonth ==
    call.pc = "scored" =>
        LET age == call.now - call.updatedAt
            window == MonthDays[MonthOf(call.now) - 1]
            bonus == age < window
        IN /\ window \in 28..31
           /\ call.RelevanceScore =
                 min(100, call.stars \div 10)
                 + (IF bonus THEN 20 ELSE 0)
                 + (IF LanguageMatch THEN 50 ELSE 0)
           /\ (call.stars = 0 /\ LanguageMatch /\ age = 0) => call.RelevanceScore = 70

\* on 31 March a repository with 2000 stars and a preferred language, updated
\* 29 days ago, is scored without the recency bonus
C22_Witness ==
    /\ call.pc = "scored" /\ call.now = Date(3, 31) /\ call.updatedAt = Date(3, 2)
    /\ call.stars = 2000 /\ call.language = "go" /\ call.preferred = <<"Go", "Rust">>
    /\ call.RelevanceScore = 150

\* C38: RelevanceScore is always within 0..170: at most 100 from the stars,
\* 20 from recency and 50 from one language match.
C38_RelevanceBounded ==
    call.pc = "scored" =>
        /\ call.RelevanceScore \in 0..170
        /\ call.RelevanceScore - (IF LanguageMatch THEN 50 ELSE 0)
              - (IF updatedRecently(call.updatedAt, call.now) THEN 20 ELSE 0) \in 0..100

\* the bound is met: far more than 1000 stars, updated today, and a
\* language that two entries of the preferred list match
C38_Witness ==
    /\ call.pc = "scored" /\ call.stars = 2000 /\ call.updatedAt = call.now
    /\ call.language = "go" /\ call.preferred = <<"Go", "go">>
    /\ call.RelevanceScore = 170

\* what the comment count adds to the score
CommentAdjustment ==
    IF call.comments = <<>> THEN 0
    ELSE IF call.comments[1] > 10 THEN 15
    ELSE IF call.comments[1] < 3 THEN 0 - 10
    ELSE 0

\* C23: the difficulty score of every issue lies in 10..100.
C23_DifficultyClamped ==
    call.pc = "scored" => call.DifficultyScore \in 10..100

\* a hard label, a bug label and more than 10 comments: 80 + 10 + 15 is cut
\* to 100
C23_Witness ==
    /\ call.pc = "scored" /\ call.labels = <<LabelHardware, LabelBug>>
    /\ call.comments = <<11>> /\ call.DifficultyScore = 100

\* C24: the label rules are applied, then the comment adjustment: no labels
\* and 5 comments score 50; "good first issue" then "bug" with 1 comment
\* score 20; one label that matches one rule scores that rule's value plus
\* the comment adjustment.
C24_LabelRulesThenComments ==
    call.pc = "scored" =>
        /\ (call.labels = <<>> /\ call.comments = <<5>>) => call.DifficultyScore = 50
        /\ (call.labels = <<LabelGoodFirstIssue, LabelBug>> /\ call.comments = <<1>>) =>
              call.DifficultyScore = 20
        /\ call.labels \in {<<>>, <<LabelDocs>>} =>
              call.DifficultyScore = 50 + CommentAdjustment
        /\ call.labels = <<LabelBug>> => call.DifficultyScore = 60 + CommentAdjustment
        /\ call.labels = <<LabelFeature>> => call.DifficultyScore = 55 + CommentAdjustment
        /\ call.labels = <<LabelHelpWanted>> => call.DifficultyScore = 40 + CommentAdjustment
        /\ call.labels = <<LabelHardware>> => call.DifficultyScore = 80 + CommentAdjustment
        /\ call.labels \in {<<LabelEasy>>, <<LabelGoodFirstIssue>>} =>
              call.DifficultyScore = 20 + CommentAdjustment

\* "good first issue" then "bug" with 1 comment: 20, 30, 20
C24_Witness ==
    /\ call.pc = "scored" /\ call.labels = <<LabelGoodFirstIssue, LabelBug>>
    /\ call.comments = <<1>> /\ call.DifficultyScore = 20

\* C25: of an easy and a hard label the one applied last sets the base (easy
\* then hard 80, hard then easy 20), so the score changes when the two labels
\* change places.
C25_LastOverwriteWins ==
    call.pc = "scored" =>
        \A easy \in {LabelEasy, LabelGoodFirstIssue} :
            /\ call.labels = <<easy, LabelHardware>> =>
                  /\ call.DifficultyScore = 80 + CommentAdjustment
                  /\ calculateDifficulty(<<LabelHardware, easy>>, call.comments)
                        # call.DifficultyScore
            /\ call.labels = <<LabelHardware, easy>> =>
                  call.DifficultyScore = 20 + CommentAdjustment

\* "Easy" then "hardware" with 5 comments scores 80
C25_Witness ==
    /\ call.pc = "scored" /\ call.labels = <<LabelEasy, LabelHardware>>
    /\ call.comments = <<5>> /\ call.DifficultyScore = 80

(***************************************************************************)
(* Properties of the issue listing (IssuesSpec).                           *)
(***************************************************************************)
\* the labels of the issues of a list, one pair (issue, position) for each
LabelOccurrences(issues) ==
    {<<i, k>> \in (1..Len(issues)) \X (1..MaxLabels) : k <= Len(issues[i].labels)}

\* the numbers of the items of a list, in order
Numbers(items) == [i \in 1..Len(items) |-> items[i].number]

\* the items of a response that are not pull requests
IsIssue(item) == ~item.pullRequest

\* C39: a result of GetRepositoryIssues holds the items that are not pull
\* requests, in the order of the response; TotalIssues is their number; and
\* LabelCounts maps each lower-cased label name of these issues to the number
\* of their labels with that name, so that the counts add up to the number of
\* labels on them.  Pull requests and their labels are counted nowhere.
C39_IssueStats ==
    (call.pc = "returned" /\ call.err = NoError) =>
        LET stats == call.stats
            occ == LabelOccurrences(stats.Issues)
            nameOf(o) == ToLowerChars(stats.Issues[o[1]].labels[o[2]])
        IN /\ Numbers(stats.Issues) = Numbers(SelectSeq(call.issues, IsIssue))
           /\ \A i \in 1..Len(stats.Issues) :
                 \E j \in 1..Len(call.issues) :
                    /\ ~call.issues[j].pullRequest
                    /\ call.issues[j].number = stats.Issues[i].number
                    /\ call.issues[j].labels = stats.Issues[i].labels
           /\ stats.TotalIssues = Len(stats.Issues)
           /\ call.prCount + stats.TotalIssues = Len(call.issues)
           /\ DOMAIN stats.LabelCounts = {nameOf(o) : o \in occ}
           /\ \A l \in DOMAIN stats.LabelCounts :
                 stats.LabelCounts[l] = Cardinality({o \in occ : nameOf(o) = l})

\* a response with a labelled pull request between two issues whose labels
\* "Easy" and "easy" differ in case only: both are counted under "easy", the
\* pull request's label "docs" under nothing
C39_Witness ==
    /\ call.pc = "returned" /\ call.err = NoError
    /\ Numbers(call.issues) = <<1, 6, 2>>
    /\ Numbers(call.stats.Issues) = <<1, 2>>
    /\ call.stats.TotalIssues = 2
    /\ call.stats.LabelCounts = (Easy :> 2) @@ (HelpWanted :> 1)

(***************************************************************************)
(* Properties of the legacy App (AppSpec).                                 *)
(***************************************************************************)
\* C33: after confirm on Welcome the searching screen is displayed while the
\* search runs: when the screen has become ScreenRepoList, a render step has
\* drawn ScreenRepoSearch before.
C33_SearchScreenRendered ==
    call.screen = ScreenRepoList => ScreenRepoSearch \in call.rendered

\* C40: on RepoList and IssueList the selected index is within the list (an
\* empty list leaves it at 0) and lies on the displayed page.
C40_SelectionOnDisplayedPage ==
    /\ call.screen = ScreenRepoList =>
          /\ call.selectedRepo >= 0
          /\ call.repos # <<>> => call.selectedRepo < Len(call.repos)
          /\ call.currentPage = Quot(call.selectedRepo, call.itemsPerPage)
    /\ call.screen = ScreenIssueList =>
          /\ call.selectedIssue >= 0
          /\ call.issues # <<>> => call.selectedIssue < Len(call.issues)
          /\ call.currentPage = Quot(call.selectedIssue, call.itemsPerPage)

====
